---- MODULE Spec2Model ----
(***************************************************************************)
(* Pizza restaurant API: server/app.py (Flask-RESTful handlers) over       *)
(* server/models.py (SQLAlchemy models Restaurant, Pizza, RestaurantPizza).*)
(*                                                                         *)
(* Spec     : requests served one at a time, one action per handler.       *)
(* SpecConc : two workers whose requests interleave at the granularity of  *)
(*            the statements each handler sends to the store.              *)
(***************************************************************************)
EXTENDS Integers, Sequences, FiniteSets, TLC

\* ------------------------------------------------------------------ bounds
\* Restaurants seeded with ids 1..MaxRestaurants, pizzas with ids
\* 1..MaxPizzas; at most MaxRows rows in restaurant_pizzas.
MaxRestaurants == 2
MaxPizzas == 1
MaxRows == 2

\* The validated price range, models.py line 98.
MinPrice == 1
MaxPrice == 30

\* -------------------------------------------------------------- JSON values
\* A decoded JSON value: null (also a key that is absent: dict.get gives
\* None), the integer val, or the non-integer number val + 1/2.
Null == [type |-> "null", val |-> 0]
IntV(n) == [type |-> "int", val |-> n]
FloatV(n) == [type |-> "float", val |-> n]

IsNumber(v) == v.type \in {"int", "float"}

\* Twice the number v stands for, so that numbers compare as integers.
Twice(v) == 2 * v.val + (IF v.type = "float" THEN 1 ELSE 0)

\* ------------------------------------------------------------------- state
VARIABLES
    restaurants,        \* table restaurants: rows [id, name, address]
    pizzas,             \* table pizzas: rows [id, name, ingredients]
    restaurant_pizzas,  \* table restaurant_pizzas: rows [id, price, pizza_id, restaurant_id]
    fkEnforced,         \* whether the configured store enforces the declared foreign keys
    request,            \* Spec: the request served last
    response,           \* Spec: the response to it
    before,             \* Spec: the three tables as they were when it arrived
    pc,                 \* SpecConc: each worker's position in its handler
    wreq,               \* SpecConc: each worker's request
    session,            \* SpecConc: each worker's session (objects loaded or pending)
    wresp               \* SpecConc: each worker's last response

storeVars == <<restaurants, pizzas, restaurant_pizzas, fkEnforced>>
seqVars == <<request, response, before>>
concVars == <<pc, wreq, session, wresp>>
vars == <<restaurants, pizzas, restaurant_pizzas, fkEnforced, request, response, before, pc, wreq, session, wresp>>

\* ---------------------------------------------------------------- seed rows
RestaurantNames == <<"Dominion", "Kiki's Pizza", "Sanjay's Pizza", "Luigi's">>
PizzaNames == <<"Margherita", "Geri", "Melanzane">>

SeedRestaurant(i) == [id |-> i, name |-> RestaurantNames[i], address |-> <<"address", i>>]
SeedPizza(i) == [id |-> i, name |-> PizzaNames[i], ingredients |-> "tomato,cheese"]

Ids(table) == {row.id : row \in table}

\* Restaurant.query.filter(Restaurant.id == id).one_or_none(), and the
\* relationship loads of the ORM: the row with that primary key, or None.
Found(table, id) == {row \in table : row.id = id}
OneOrNone(table, id) == IF Found(table, id) = {} THEN Null ELSE CHOOSE row \in table : row.id = id

\* --------------------------------------------------------------- responses
NotFound == [status |-> 404, body |-> [error |-> "Restaurant not found"]]
ValidationErrors == [status |-> 400, body |-> [errors |-> <<"validation errors">>]]
NoContent == [status |-> 204, body |-> [text |-> ""]]
\* What the framework answers for an exception no handler caught.
BadRequest == [status |-> 400, body |-> [message |-> "Bad Request"]]
InternalServerError == [status |-> 500, body |-> [message |-> "Internal Server Error"]]

NoRequest == [method |-> "NONE", path |-> "", id |-> 0, data |-> [kind |-> "none", price |-> Null, pizza_id |-> Null, restaurant_id |-> Null], fault |-> "none"]
NoResponse == [status |-> 0, body |-> [text |-> ""]]

\* ------------------------------------------------------------ serialization
\* to_dict(rules=('-restaurant_pizzas',)) on a Restaurant / a Pizza.
RestaurantDict(r) == [id |-> r.id, name |-> r.name, address |-> r.address]
PizzaDict(p) == [id |-> p.id, name |-> p.name, ingredients |-> p.ingredients]

\* The backrefs RestaurantPizza.pizza and RestaurantPizza.restaurant.
PizzaOf(rp, P) == IF Found(P, rp.pizza_id) = {} THEN Null ELSE PizzaDict(OneOrNone(P, rp.pizza_id))
RestaurantOf(rp, R) == IF Found(R, rp.restaurant_id) = {} THEN Null ELSE RestaurantDict(OneOrNone(R, rp.restaurant_id))

\* Restaurant.restaurant_pizzas: the rows whose restaurant_id is r's id.
RestaurantPizzasOf(id, RP) == {rp \in RP : rp.restaurant_id = id}

\* RestaurantPizza.to_dict() under serialize_rules
\* ('-pizza.restaurant_pizzas', '-restaurant.restaurant_pizzas').
RestaurantPizza_to_dict(rp, R, P) == [id |-> rp.id, price |-> rp.price, pizza_id |-> rp.pizza_id, restaurant_id |-> rp.restaurant_id, pizza |-> PizzaOf(rp, P), restaurant |-> RestaurantOf(rp, R)]

\* Restaurant.to_dict() under serialize_rules ('-restaurant_pizzas.restaurant',).
Restaurant_to_dict(r, RP, P) == [id |-> r.id, name |-> r.name, address |-> r.address, restaurant_pizzas |-> {[id |-> rp.id, price |-> rp.price, pizza_id |-> rp.pizza_id, restaurant_id |-> rp.restaurant_id, pizza |-> PizzaOf(rp, P)] : rp \in RestaurantPizzasOf(r.id, RP)}]

\* ------------------------------------------------------------- the models
\* validate_price with the upper end excluded: 1 <= value < 30.
validate_price_exclusive(value) ==
    IF ~IsNumber(value) THEN "TypeError"
    ELSE IF ~(Twice(IntV(MinPrice)) <= Twice(value) /\ Twice(value) < Twice(IntV(MaxPrice))) THEN "ValueError"
    ELSE "ok"

\* validate_price with the lower end one too low: 0 <= value <= 30.
validate_price_from_zero(value) ==
    IF ~IsNumber(value) THEN "TypeError"
    ELSE IF ~(Twice(IntV(MinPrice - 1)) <= Twice(value) /\ Twice(value) <= Twice(IntV(MaxPrice))) THEN "ValueError"
    ELSE "ok"

\* RestaurantPizza.validate_price (models.py 96-100): the chained comparison
\* 1 <= value <= 30 raises TypeError on None or a string, and is decided on
\* the number's value whatever its type.
validate_price(value) ==
    IF ~IsNumber(value) THEN "TypeError"
    ELSE IF ~(Twice(IntV(MinPrice)) <= Twice(value) /\ Twice(value) <= Twice(IntV(MaxPrice))) THEN "ValueError"
    ELSE "ok"

\* RestaurantPizza(price=data.get('price'), pizza_id=data.get('pizza_id'),
\* restaurant_id=data.get('restaurant_id')) (app.py 62-66): data.get raises
\* AttributeError when the decoded body is no object; price is assigned
\* first, through the validator; the two ids are assigned as they come.
RestaurantPizza_init(data) ==
    IF data.kind # "object" THEN [raised |-> "AttributeError"]
    ELSE IF validate_price(data.price) # "ok" THEN [raised |-> validate_price(data.price)]
    ELSE [raised |-> "none", price |-> data.price, pizza_id |-> data.pizza_id, restaurant_id |-> data.restaurant_id]

\* The primary key the store gives a new row (models.py 84): one more than
\* the largest in the table.
NextId(RP) == IF RP = {} THEN 1 ELSE 1 + (CHOOSE m \in Ids(RP) : \A k \in Ids(RP) : k <= m)

\* What the store keeps of a price bound to the Integer column (models.py
\* 85): an integer as it is; a non-integer number as it is (a store with
\* dynamic typing, as the default one) or rounded to an integer (a store that
\* casts on assignment).
StoredAs(price) ==
    IF price.type = "int" THEN {price} ELSE {price, IntV(price.val + 1)}

\* The constraints of the table (models.py 85-87) checked by the INSERT:
\* nullable=False on both ids, and the two foreign keys where the store
\* enforces them.
IntegrityError(obj, R, P) ==
    \/ obj.pizza_id = Null
    \/ obj.restaurant_id = Null
    \/ fkEnforced /\ (obj.pizza_id.val \notin Ids(P) \/ obj.restaurant_id.val \notin Ids(R))

\* db.session.add(restaurant_pizza); db.session.commit() (app.py 67-68): the
\* possible results of the flush and commit of one pending object. A raise
\* leaves the table as it was.
commit_add(obj, fault, R, P, RP) ==
    IF fault = "commit" \/ IntegrityError(obj, R, P)
    THEN {[raised |-> TRUE, rows |-> RP, row |-> Null]}
    ELSE {[raised |-> FALSE, rows |-> RP \cup {row}, row |-> row] :
            row \in {[id |-> NextId(RP), price |-> p, pizza_id |-> obj.pizza_id.val, restaurant_id |-> obj.restaurant_id.val] : p \in StoredAs(obj.price)}}

\* commit_delete without the cascade: only the restaurant's row is deleted.
commit_delete_no_cascade(restaurant, cascade, fault, R, RP) ==
    IF fault = "commit"
    THEN [raised |-> TRUE, restaurants |-> R, rows |-> RP]
    ELSE [raised |-> FALSE, restaurants |-> {r \in R : r.id # restaurant.id}, rows |-> RP]

\* db.session.delete(restaurant); db.session.commit() (app.py 48-49) with the
\* cascade of models.py 43: the collection loaded by delete() is deleted row
\* by row, by primary key, then the restaurant. The store refuses when it
\* enforces foreign keys and a row it was not told to delete still refers to
\* the restaurant. A raise leaves the tables as they were.
commit_delete(restaurant, cascade, fault, R, RP) ==
    LET rest == {rp \in RP : rp.id \notin Ids(cascade)}
    IN  IF fault = "commit" \/ (fkEnforced /\ RestaurantPizzasOf(restaurant.id, rest) # {})
        THEN [raised |-> TRUE, restaurants |-> R, rows |-> RP]
        ELSE [raised |-> FALSE, restaurants |-> {r \in R : r.id # restaurant.id}, rows |-> rest]

\* ------------------------------------------------------------ the handlers
\* index (app.py 27-29).
index_response == [status |-> 200, body |-> [html |-> "<h1>Code challenge</h1>"]]

\* Restaurants.get (app.py 33-34).
Restaurants_get_response(R) == [status |-> 200, body |-> [items |-> {RestaurantDict(r) : r \in R}]]

\* Pizzas.get (app.py 54-55).
Pizzas_get_response(P) == [status |-> 200, body |-> [items |-> {PizzaDict(p) : p \in P}]]

\* RestaurantById.get (app.py 38-42).
RestaurantById_get_response(id, R, P, RP) ==
    IF OneOrNone(R, id) = Null THEN NotFound
    ELSE [status |-> 200, body |-> Restaurant_to_dict(OneOrNone(R, id), RP, P)]

\* RestaurantById.delete without the test of lines 46-47: the rows with the
\* id are deleted and 204 answered whether or not the restaurant exists.
RestaurantById_delete_unchecked(id, fault, R, RP) ==
    IF fault = "commit" THEN [response |-> InternalServerError, restaurants |-> R, rows |-> RP]
    ELSE [response |-> NoContent, restaurants |-> {r \in R : r.id # id},
          rows |-> {rp \in RP : rp.restaurant_id # id}]

\* RestaurantById.delete (app.py 44-50): no try around the delete and the
\* commit, so a raise of the store leaves the handler.
RestaurantById_delete_result(id, fault, R, RP) ==
    IF OneOrNone(R, id) = Null THEN [response |-> NotFound, restaurants |-> R, rows |-> RP]
    ELSE LET done == commit_delete(OneOrNone(R, id), RestaurantPizzasOf(id, RP), fault, R, RP)
         IN  [response |-> IF done.raised THEN InternalServerError ELSE NoContent,
              restaurants |-> done.restaurants, rows |-> done.rows]

\* RestaurantPizzas.post (app.py 59-74). request.get_json() (line 60) is
\* outside the try: a body that is not JSON raises BadRequest past the
\* handler. Inside the try, ValueError answers 400 (70-71) and every other
\* exception rolls back and answers 400 (72-74).
RestaurantPizzas_post_results(data, fault, R, P, RP) ==
    IF data.kind = "malformed" THEN {[response |-> BadRequest, rows |-> RP]}
    ELSE IF RestaurantPizza_init(data).raised # "none" THEN {[response |-> ValidationErrors, rows |-> RP]}
    ELSE {[response |-> IF done.raised THEN ValidationErrors
                        ELSE [status |-> 201, body |-> RestaurantPizza_to_dict(done.row, R, P)],
           rows |-> done.rows] : done \in commit_add(RestaurantPizza_init(data), fault, R, P, RP)}

\* ------------------------------------------------------------- the inputs
\* Prices a client may send: absent, the integers on both sides of each end
\* of the valid range, and the non-integer numbers 0.5, 29.5 and 30.5.
PriceValues ==
    {Null, IntV(MinPrice - 1), IntV(MinPrice), IntV(MaxPrice), IntV(MaxPrice + 1),
     FloatV(MinPrice - 1), FloatV(MaxPrice - 1), FloatV(MaxPrice)}

\* Ids a client may send: absent; for a pizza the first seeded id and one
\* past the seeded ids; for a restaurant the first and the last seeded id
\* (either refers to no row once its restaurant is deleted).
PizzaIdValues == {Null, IntV(1), IntV(MaxPizzas + 1)}
RestaurantIdValues == {Null, IntV(1), IntV(MaxRestaurants)}
PathIds == 1..(MaxRestaurants + 1)

\* A request body: not JSON at all, JSON that is no object, or an object.
NoData == [kind |-> "none", price |-> Null, pizza_id |-> Null, restaurant_id |-> Null]
Bodies ==
    {[kind |-> k, price |-> Null, pizza_id |-> Null, restaurant_id |-> Null] : k \in {"malformed", "nonobject"}}
    \cup [kind : {"object"}, price : PriceValues, pizza_id : PizzaIdValues, restaurant_id : RestaurantIdValues]

\* Whether the store raised during the request's commit (the database locked
\* by another writer, the disk full, the connection lost).
Faults == {"none", "commit"}

Tables == [restaurants |-> restaurants, pizzas |-> pizzas, restaurant_pizzas |-> restaurant_pizzas]

\* ------------------------------------------------- Spec: one request at a time
Workers == {1, 2}

InitStore ==
    /\ restaurants = {SeedRestaurant(i) : i \in 1..MaxRestaurants}
    /\ pizzas = {SeedPizza(i) : i \in 1..MaxPizzas}
    /\ restaurant_pizzas = {}
    /\ fkEnforced \in BOOLEAN

InitWorkers ==
    /\ pc = [w \in Workers |-> "idle"]
    /\ wreq = [w \in Workers |-> NoRequest]
    /\ session = [w \in Workers |-> {}]
    /\ wresp = [w \in Workers |-> NoResponse]

Init ==
    /\ InitStore
    /\ InitWorkers
    /\ request = NoRequest
    /\ response = NoResponse
    /\ before = Tables

\* The server takes a request when the one before is answered.
Waiting == request = NoRequest

\* The request served and its response; the tables it found.
Serve(method, path, id, data, fault, resp) ==
    /\ request' = [method |-> method, path |-> path, id |-> id, data |-> data, fault |-> fault]
    /\ response' = resp
    /\ before' = Tables
    /\ UNCHANGED concVars

index ==
    /\ Waiting
    /\ Serve("GET", "/", 0, NoData, "none", index_response)
    /\ UNCHANGED storeVars

Restaurants_get ==
    /\ Waiting
    /\ Serve("GET", "/restaurants", 0, NoData, "none", Restaurants_get_response(restaurants))
    /\ UNCHANGED storeVars

Pizzas_get ==
    /\ Waiting
    /\ Serve("GET", "/pizzas", 0, NoData, "none", Pizzas_get_response(pizzas))
    /\ UNCHANGED storeVars

RestaurantById_get ==
    /\ Waiting
    /\ \E id \in PathIds :
        /\ Serve("GET", "/restaurants/<int:id>", id, NoData, "none",
                 RestaurantById_get_response(id, restaurants, pizzas, restaurant_pizzas))
        /\ UNCHANGED storeVars

RestaurantById_delete ==
    /\ Waiting
    /\ \E id \in PathIds, fault \in Faults :
        LET result == RestaurantById_delete_result(id, fault, restaurants, restaurant_pizzas)
        IN  /\ fault = "commit" => OneOrNone(restaurants, id) # Null
            /\ Serve("DELETE", "/restaurants/<int:id>", id, NoData, fault, result.response)
            /\ restaurants' = result.restaurants
            /\ restaurant_pizzas' = result.rows
            /\ UNCHANGED <<pizzas, fkEnforced>>

RestaurantPizzas_post ==
    /\ Waiting
    /\ \E data \in Bodies, fault \in Faults :
        \E result \in RestaurantPizzas_post_results(data, fault, restaurants, pizzas, restaurant_pizzas) :
            /\ fault = "commit" => RestaurantPizza_init(data).raised = "none"
            /\ Cardinality(result.rows) <= MaxRows
            /\ Serve("POST", "/restaurant_pizzas", 0, data, fault, result.response)
            /\ restaurant_pizzas' = result.rows
            /\ UNCHANGED <<restaurants, pizzas, fkEnforced>>

\* The response is sent and the server waits for the next request.
Respond_and_wait ==
    /\ ~Waiting
    /\ request' = NoRequest
    /\ response' = NoResponse
    /\ before' = Tables
    /\ UNCHANGED storeVars
    /\ UNCHANGED concVars

Next ==
    \/ Respond_and_wait
    \/ index
    \/ Restaurants_get
    \/ Pizzas_get
    \/ RestaurantById_get
    \/ RestaurantById_delete
    \/ RestaurantPizzas_post

Spec == Init /\ [][Next]_vars

\* ------------------------------------- SpecConc: two workers, interleaved
\* Each worker serves one request at a time with a session of its own; the
\* store sees the statements of the two handlers in any order. Every
\* statement and every commit is atomic in the store.
ConcBodies ==
    [kind : {"object"}, price : {IntV(MinPrice), IntV(MaxPrice + 1)}, pizza_id : {IntV(1)},
     restaurant_id : {IntV(i) : i \in 1..MaxRestaurants}]

InitConc ==
    /\ InitStore
    /\ InitWorkers
    /\ request = NoRequest
    /\ response = NoResponse
    /\ before = Tables

\* A worker's request is over: its response is sent, its session removed.
Respond(w, resp) ==
    /\ wresp' = [wresp EXCEPT ![w] = resp]
    /\ session' = [session EXCEPT ![w] = {}]
    /\ pc' = [pc EXCEPT ![w] = "idle"]

\* A request arrives and is routed to its handler (app.py 78, 80).
Receive(w) ==
    /\ pc[w] = "idle"
    /\ \/ \E id \in 1..MaxRestaurants, fault \in Faults :
            /\ wreq' = [wreq EXCEPT ![w] = [method |-> "DELETE", path |-> "/restaurants/<int:id>", id |-> id, data |-> NoData, fault |-> fault]]
            /\ pc' = [pc EXCEPT ![w] = "delete_query"]
       \/ \E data \in ConcBodies, fault \in Faults :
            /\ wreq' = [wreq EXCEPT ![w] = [method |-> "POST", path |-> "/restaurant_pizzas", id |-> 0, data |-> data, fault |-> fault]]
            /\ pc' = [pc EXCEPT ![w] = "post_commit"]
    /\ UNCHANGED <<session, wresp>>
    /\ UNCHANGED storeVars
    /\ UNCHANGED seqVars

\* RestaurantById.delete, app.py 45-47: the query.
Delete_query(w) ==
    /\ pc[w] = "delete_query"
    /\ IF OneOrNone(restaurants, wreq[w].id) = Null
       THEN Respond(w, NotFound)
       ELSE /\ session' = [session EXCEPT ![w] = {OneOrNone(restaurants, wreq[w].id)}]
            /\ pc' = [pc EXCEPT ![w] = "delete_cascade"]
            /\ UNCHANGED wresp
    /\ UNCHANGED wreq
    /\ UNCHANGED storeVars
    /\ UNCHANGED seqVars

\* RestaurantById.delete, app.py 48: db.session.delete(restaurant) loads the
\* restaurant's restaurant_pizzas and marks them deleted with it (models.py
\* 43, cascade='all, delete-orphan').
Delete_cascade(w) ==
    /\ pc[w] = "delete_cascade"
    /\ session' = [session EXCEPT ![w] = session[w] \cup RestaurantPizzasOf(wreq[w].id, restaurant_pizzas)]
    /\ pc' = [pc EXCEPT ![w] = "delete_commit"]
    /\ UNCHANGED <<wreq, wresp>>
    /\ UNCHANGED storeVars
    /\ UNCHANGED seqVars

\* RestaurantById.delete, app.py 49-50: the commit, and the response.
Delete_commit(w) ==
    /\ pc[w] = "delete_commit"
    /\ LET restaurant == CHOOSE r \in session[w] : "name" \in DOMAIN r
           cascade == {rp \in session[w] : "price" \in DOMAIN rp}
           done == commit_delete(restaurant, cascade, wreq[w].fault, restaurants, restaurant_pizzas)
       IN  /\ restaurants' = done.restaurants
           /\ restaurant_pizzas' = done.rows
           /\ Respond(w, IF done.raised THEN InternalServerError ELSE NoContent)
    /\ UNCHANGED <<wreq, pizzas, fkEnforced>>
    /\ UNCHANGED seqVars

\* RestaurantPizzas.post, app.py 60-68 and 70-74: the body decoded, the
\* object built and validated, added and committed; or the 400 of either
\* except clause.
Post_commit(w) ==
    /\ pc[w] = "post_commit"
    /\ IF RestaurantPizza_init(wreq[w].data).raised # "none"
       THEN /\ Respond(w, ValidationErrors)
            /\ UNCHANGED restaurant_pizzas
       ELSE \E done \in commit_add(RestaurantPizza_init(wreq[w].data), wreq[w].fault, restaurants, pizzas, restaurant_pizzas) :
              /\ Cardinality(done.rows) <= MaxRows
              /\ restaurant_pizzas' = done.rows
              /\ IF done.raised
                 THEN Respond(w, ValidationErrors)
                 ELSE /\ session' = [session EXCEPT ![w] = {done.row}]
                      /\ pc' = [pc EXCEPT ![w] = "post_to_dict"]
                      /\ UNCHANGED wresp
    /\ UNCHANGED <<wreq, restaurants, pizzas, fkEnforced>>
    /\ UNCHANGED seqVars

\* RestaurantPizzas.post, app.py 69: to_dict() reads the attributes the
\* commit expired, so the row is read again by its primary key; the read
\* raises when the row is gone, and the except of lines 72-74 answers 400.
Post_to_dict(w) ==
    /\ pc[w] = "post_to_dict"
    /\ LET mine == CHOOSE rp \in session[w] : TRUE
           row == OneOrNone(restaurant_pizzas, mine.id)
       IN  IF row = Null
           THEN Respond(w, ValidationErrors)
           ELSE Respond(w, [status |-> 201, body |-> RestaurantPizza_to_dict(row, restaurants, pizzas)])
    /\ UNCHANGED wreq
    /\ UNCHANGED storeVars
    /\ UNCHANGED seqVars

NextConc ==
    \E w \in Workers :
        \/ Receive(w)
        \/ Delete_query(w)
        \/ Delete_cascade(w)
        \/ Delete_commit(w)
        \/ Post_commit(w)
        \/ Post_to_dict(w)

SpecConc == InitConc /\ [][NextConc]_vars

\* ------------------------------------------------ the claims, under Spec
\* The request served last, by handler.
IsPost == request.method = "POST"
IsDelete == request.method = "DELETE"
IsGetById == request.method = "GET" /\ request.path = "/restaurants/<int:id>"
IsObject == request.data.kind = "object"

\* The ids of the body name rows that existed when the request arrived.
PizzaExists == request.data.pizza_id.type = "int" /\ request.data.pizza_id.val \in Ids(before.pizzas)
RestaurantExists == request.data.restaurant_id.type = "int" /\ request.data.restaurant_id.val \in Ids(before.restaurants)

IntegerPrice == request.data.price.type = "int"
StoreUnchanged == Tables = before
NewRows == restaurant_pizzas \ before.restaurant_pizzas

\* C1: a POST /restaurant_pizzas with an integer price in 1..30 and ids of
\* existing rows, whose commit the store does not refuse, answers 201 and
\* leaves the tables as they were plus exactly one row, with a new id and the
\* request's price, pizza_id and restaurant_id.
C1_CreateValid ==
    (IsPost /\ IsObject /\ IntegerPrice /\ 1 <= request.data.price.val /\ request.data.price.val <= 30
       /\ PizzaExists /\ RestaurantExists /\ request.fault = "none")
    => /\ response.status = 201
       /\ restaurants = before.restaurants
       /\ pizzas = before.pizzas
       /\ before.restaurant_pizzas \subseteq restaurant_pizzas
       /\ Cardinality(NewRows) = 1
       /\ \A row \in NewRows :
            /\ row.id \notin Ids(before.restaurant_pizzas)
            /\ row.price = request.data.price
            /\ row.pizza_id = request.data.pizza_id.val
            /\ row.restaurant_id = request.data.restaurant_id.val

\* C1's case: a valid POST answered 201 in a table that already held a row.
C1_Witness ==
    /\ IsPost /\ IntegerPrice /\ request.data.price.val = 30 /\ PizzaExists /\ RestaurantExists
    /\ response.status = 201
    /\ before.restaurant_pizzas # {}
    /\ Cardinality(restaurant_pizzas) = 2

\* C2: a POST /restaurant_pizzas with an integer price below 1 or above 30
\* answers 400 {"errors": ["validation errors"]} and leaves the three tables
\* as they were; and no table ever holds a row with such a price, so no later
\* request persists the rejected record.
C2_RejectOutOfRange ==
    /\ (IsPost /\ IsObject /\ IntegerPrice /\ (request.data.price.val < 1 \/ request.data.price.val > 30))
       => (response = [status |-> 400, body |-> [errors |-> <<"validation errors">>]] /\ StoreUnchanged)
    /\ \A row \in restaurant_pizzas :
         row.price.type = "int" => (1 <= row.price.val /\ row.price.val <= 30)

\* C2's case: a price of 31 refused while the table holds a row.
C2_Witness ==
    /\ IsPost /\ IsObject /\ IntegerPrice /\ request.data.price.val = 31
    /\ PizzaExists /\ RestaurantExists
    /\ response.status = 400
    /\ restaurant_pizzas # {}

\* C3: a DELETE /restaurants/{id} on an existing restaurant, whose commit the
\* store does not refuse, answers 204 and leaves the tables as they were less
\* that restaurant and the rows of restaurant_pizzas with its id; no request
\* brings a restaurant's id back, and a GET or DELETE on an id with no row
\* answers 404.
C3_DeleteCascade ==
    /\ (IsDelete /\ request.id \in Ids(before.restaurants) /\ request.fault = "none")
       => /\ response = [status |-> 204, body |-> [text |-> ""]]
          /\ restaurants = {r \in before.restaurants : r.id # request.id}
          /\ restaurant_pizzas = {rp \in before.restaurant_pizzas : rp.restaurant_id # request.id}
          /\ pizzas = before.pizzas
    /\ Ids(restaurants) \subseteq Ids(before.restaurants)
    /\ ((IsDelete \/ IsGetById) /\ request.id \notin Ids(before.restaurants)) => response.status = 404

\* C3's case: a restaurant deleted with its two rows.
C3_Witness ==
    /\ IsDelete /\ response.status = 204
    /\ Cardinality({rp \in before.restaurant_pizzas : rp.restaurant_id = request.id}) = 2
    /\ restaurants # {}
    /\ restaurant_pizzas = {}

\* C4: a POST /restaurant_pizzas whose pizza_id or restaurant_id is absent or
\* names no existing row answers 400 {"errors": ["validation errors"]} and
\* persists no row, whatever the price.
C4_RejectBadReference ==
    (IsPost /\ IsObject /\ ~(PizzaExists /\ RestaurantExists))
    => (response = [status |-> 400, body |-> [errors |-> <<"validation errors">>]]
        /\ restaurant_pizzas = before.restaurant_pizzas)

\* C5: every row of restaurant_pizzas has an integer price between 1 and 30.
C5_PriceInvariant ==
    \A row \in restaurant_pizzas :
        row.price.type = "int" /\ 1 <= row.price.val /\ row.price.val <= 30

\* C6: every row of restaurant_pizzas names an existing restaurant and an
\* existing pizza.
C6_ReferentialInvariant ==
    \A row \in restaurant_pizzas :
        row.restaurant_id \in Ids(restaurants) /\ row.pizza_id \in Ids(pizzas)

\* C7: a GET or DELETE /restaurants/{id} on an id with no row answers 404
\* {"error": "Restaurant not found"} and leaves the three tables as they were.
C7_NotFound ==
    ((IsDelete \/ IsGetById) /\ request.id \notin Ids(before.restaurants))
    => (response = [status |-> 404, body |-> [error |-> "Restaurant not found"]] /\ StoreUnchanged)

\* C7's case: a DELETE on the id of a restaurant deleted before, while rows
\* are in the table.
C7_Witness ==
    /\ IsDelete /\ request.id \notin Ids(before.restaurants)
    /\ request.id <= MaxRestaurants
    /\ response.status = 404
    /\ restaurant_pizzas # {}

\* C8: every request ends in one of the fixed response shapes: 200, 201 or
\* 204, 404 {"error": "Restaurant not found"}, or 400 {"errors":
\* ["validation errors"]}; no error leaves a handler uncaught.
C8_FixedShapes ==
    request.method # "NONE"
    => \/ response.status \in {200, 201, 204}
       \/ response = [status |-> 404, body |-> [error |-> "Restaurant not found"]]
       \/ response = [status |-> 400, body |-> [errors |-> <<"validation errors">>]]

\* C10: a GET /restaurants/{id} on an existing restaurant answers 200 with its
\* id, name and address and exactly the rows of restaurant_pizzas with its id,
\* each with the id, name and ingredients of its pizza and no key
\* "restaurant"; the tables stay as they were.
C10_GetWithPizzas ==
    (IsGetById /\ request.id \in Ids(before.restaurants))
    => /\ response.status = 200
       /\ \E r \in before.restaurants :
            r.id = request.id /\ response.body.id = r.id /\ response.body.name = r.name
            /\ response.body.address = r.address
       /\ {[id |-> d.id, price |-> d.price, pizza_id |-> d.pizza_id, restaurant_id |-> d.restaurant_id] : d \in response.body.restaurant_pizzas}
            = {rp \in before.restaurant_pizzas : rp.restaurant_id = request.id}
       /\ \A d \in response.body.restaurant_pizzas :
            /\ "restaurant" \notin DOMAIN d
            /\ \E p \in before.pizzas :
                 d.pizza = [id |-> p.id, name |-> p.name, ingredients |-> p.ingredients] /\ p.id = d.pizza_id
       /\ StoreUnchanged

\* ---------------------------------------------- the claim under SpecConc
\* C9: under any interleaving of POST /restaurant_pizzas and DELETE
\* /restaurants/{id} requests, every request commits its whole change or
\* none of it: the commit of a DELETE answered 204 leaves no row of
\* restaurant_pizzas with the deleted restaurant's id, and a step that
\* answers 400 or 500 changes no table.
C9_AtomicRequests ==
    [][\A w \in Workers :
         /\ (pc[w] = "delete_commit" /\ pc'[w] = "idle" /\ wresp'[w].status = 204)
            => \A rp \in restaurant_pizzas' : rp.restaurant_id # wreq[w].id
         /\ (pc[w] # "idle" /\ pc'[w] = "idle" /\ wresp'[w].status \in {400, 500})
            => (restaurants' = restaurants /\ pizzas' = pizzas /\ restaurant_pizzas' = restaurant_pizzas)
      ]_vars

====
